---- MODULE Spec2Model ----
(***************************************************************************)
(* Model of KeywordTagSpider                                               *)
(* (src/book_crawler/book_crawler/spiders/keyword_tags_spider.py).         *)
(*                                                                         *)
(* A text is a sequence of tokens.  A token stands for a fixed run of      *)
(* characters (a word, a space, a control character, an HTML entity, ...); *)
(* the length of a text is the sum of the lengths of its tokens, and two   *)
(* texts are the same Python string exactly when they are the same         *)
(* sequence, because no token is a concatenation of other tokens.          *)
(*                                                                         *)
(* The crawl is the spider's callbacks run by the engine one at a time.    *)
(* parse_cse_page is a generator: the engine resumes it once per item, and *)
(* the callback of a response that has arrived may run between two of its  *)
(* iterations.  A response of any status is handed to parse_tags, as its   *)
(* test of response.status expects; a fetch that fails on every attempt    *)
(* runs nothing, because no Request has an errback.                        *)
(***************************************************************************)
EXTENDS Integers, Sequences, FiniteSets, TLC

(***************************************************************************)
(* Bounds of the model.                                                    *)
(***************************************************************************)
MaxTokens == 5    \* tokens of a raw block text enumerated by SpecText
MaxBlocks == 3    \* candidate blocks of a node enumerated by SpecBlock
MaxItems == 3     \* items of the search response page
MaxNodes == 2     \* matched nodes of a fetched page
MaxDepth == 10    \* elements on the parent chain of an elem, SpecPath
NumHosts == 5     \* hosts of the scheduled urls, SpecSched

(***************************************************************************)
(* Program constants.                                                      *)
(***************************************************************************)
MIN_GOOD_LEN == 15      \* is_good_content: len(text) < 15
MIN_BLOCK_LEN == 20     \* get_content_block: len(c) > 20
MIN_WORDS == 2          \* is_good_content: ... >= 2
WORD_LETTERS == 3       \* is_good_content: [a-zA-Z]{3,}
MAX_SITES == 10         \* parse_cse_page: total_sites >= 10
MATCH_CAP == 20         \* parse_tags: response.xpath(...)[:20]
RETRY_TIMES == 2        \* custom_settings
CONTENT_CAP == 2000     \* save_content_json: content[:2000]
HTTP_ERROR == 400       \* parse_tags: response.status >= 400
None == 0               \* the status of a site that no response has set
DEPTH_CAP == 8          \* selectors get_css_path collects at most
PATH_CAP == 120         \* characters get_css_path returns at most
SEPARATOR_LEN == 3      \* the length of " > "
CSE_NUM == 10           \* results asked of the search per page
CONCURRENT_REQUESTS == 8
CONCURRENT_REQUESTS_PER_DOMAIN == 2

(***************************************************************************)
(* Texts.                                                                  *)
(***************************************************************************)
Letters == {"analysis", "solar", "sun", "pv", "cookie"}
Spaces == {" ", "\n"}
Tokens == Letters \cup Spaces \cup {"&amp;"}

TokLen(t) ==
  CASE t = "analysis" -> 8
    [] t = "cookie" -> 6
    [] t = "solar" -> 5
    [] t = "&amp;" -> 5
    [] t = "sun" -> 3
    [] t = "pv" -> 2
    [] OTHER -> 1

RECURSIVE TextLen(_)
\* len(text)
TextLen(text) ==
  IF text = <<>> THEN 0 ELSE TokLen(Head(text)) + TextLen(Tail(text))

RECURSIVE strip_left(_)
strip_left(text) ==
  IF text # <<>> /\ Head(text) \in Spaces THEN strip_left(Tail(text)) ELSE text

RECURSIVE strip_right(_)
strip_right(text) ==
  IF text # <<>> /\ text[Len(text)] \in Spaces
  THEN strip_right(SubSeq(text, 1, Len(text) - 1))
  ELSE text

\* str.strip()
strip(text) == strip_right(strip_left(text))

\* re.sub(r'&[a-zA-Z0-9#]+;', ' ', text)
sub_entities(text) ==
  [i \in 1..Len(text) |-> IF text[i] = "&amp;" THEN " " ELSE text[i]]

\* re.sub(r'[\x00-\x1F\x7F-\x9F\u00A0]', ' ', text)
sub_control(text) ==
  [i \in 1..Len(text) |-> IF text[i] = "\n" THEN " " ELSE text[i]]

RECURSIVE collapse_spaces(_)
\* re.sub(r'\s+', ' ', text)
collapse_spaces(text) ==
  IF text = <<>> THEN <<>>
  ELSE IF Head(text) \in Spaces
       THEN <<" ">> \o collapse_spaces(strip_left(text))
       ELSE <<Head(text)>> \o collapse_spaces(Tail(text))

clean_text(text) ==
  IF text = <<>> THEN <<>>
  ELSE collapse_spaces(strip(sub_control(sub_entities(text))))

RECURSIVE WordRuns(_, _)
\* the lengths of the maximal runs of letters of text, run being the
\* length of the run that ends just before text
WordRuns(text, run) ==
  IF text = <<>> THEN (IF run > 0 THEN <<run>> ELSE <<>>)
  ELSE IF Head(text) \in Letters
       THEN WordRuns(Tail(text), run + TokLen(Head(text)))
       ELSE (IF run > 0 THEN <<run>> ELSE <<>>)
            \o (IF Head(text) = "&amp;" THEN <<3>> ELSE <<>>)  \* the letters amp
            \o WordRuns(Tail(text), 0)

RECURSIVE CountWords(_)
CountWords(runs) ==
  IF runs = <<>> THEN 0
  ELSE (IF Head(runs) >= WORD_LETTERS THEN 1 ELSE 0) + CountWords(Tail(runs))

\* len(re.findall(r'\b[a-zA-Z]{3,}\b', text))
word_count(text) == CountWords(WordRuns(text, 0))

\* any(re.search(p, text, re.I) for p in bad_patterns): over Tokens only
\* r'cookie|privacy|term' can match, and it matches anywhere in the text
matches_bad_pattern(text) == \E i \in 1..Len(text) : text[i] = "cookie"

\* is_good_content without its test of the bad patterns
is_good_content_no_patterns(text0) ==
  LET text == strip(text0) IN
    IF TextLen(text) < MIN_GOOD_LEN THEN FALSE
    ELSE word_count(text) >= MIN_WORDS

is_good_content(text0) ==
  LET text == strip(text0) IN
    IF TextLen(text) < MIN_GOOD_LEN THEN FALSE
    ELSE IF matches_bad_pattern(text) THEN FALSE
    ELSE word_count(text) >= MIN_WORDS

\* [c for c in candidates if len(c) > 20]
long_enough(c) == TextLen(c) > MIN_BLOCK_LEN

RECURSIVE max_by_len(_, _)
\* max(candidates, key=len) with best the maximum so far: a later candidate
\* replaces it only when strictly longer
max_by_len(cands, best) ==
  IF cands = <<>> THEN best
  ELSE max_by_len(Tail(cands),
                  IF TextLen(Head(cands)) > TextLen(best) THEN Head(cands) ELSE best)

\* the cleaned texts of the blocks the selectors found, in selector order
cleaned_blocks(blocks) == [i \in 1..Len(blocks) |-> clean_text(blocks[i])]

\* blocks: the string() of the first hit of each selector that has one, in
\* the order of the selectors; the result <<>> is the empty string
get_content_block(blocks) ==
  LET good == SelectSeq(cleaned_blocks(blocks), is_good_content)
      candidates == SelectSeq(good, long_enough)
  IN IF candidates # <<>> THEN max_by_len(Tail(candidates), Head(candidates))
     ELSE <<>>

(***************************************************************************)
(* Sample block texts, as the pages of the crawl hold them (uncleaned).    *)
(***************************************************************************)
Raw12 == <<"analysis", " ", "sun">>
Raw15 == <<"solar", " ", "solar", " ", "sun">>
Raw21 == <<"analysis", " ", "analysis", " ", "sun">>
Raw21e == <<"\n", "analysis", "&amp;", "analysis", " ", "\n", "sun", " ">>
Raw40 == <<"analysis", " ", "analysis", " ", "analysis", " ", "solar", " ",
           "sun", " ", "sun">>
RawBad == <<"cookie", " ", "analysis", " ", "analysis", " ", "sun">>
RawOne == <<"analysis", " ", "pv", " ", "pv", " ", "pv", " ", "pv", " ", "pv">>
SampleRaws == {Raw12, Raw15, Raw21, Raw21e, Raw40, RawBad, RawOne}

(***************************************************************************)
(* The crawl.                                                              *)
(***************************************************************************)
URLs == {"u1", "u2"}
NoLink == "nolink"              \* an item without a link: result.get('link')
Links == URLs \cup {NoLink}
CssPaths == {"body > p", "body > div.content > p"}
Statuses == {200, 404}
\* self.KEYWORD.lower().split()
KEYWORD == <<"solar", "panel", "market", "analysis">>

\* The elements a page may hold, in document order: the rendered css path
\* of the element, the keyword words its own text contains, and the texts
\* of the blocks the selectors of get_content_block find from it.
NodeSeq ==
  << [css_path |-> "body > p", words |-> {"solar"},
      blocks |-> <<RawBad, Raw21>>],
     [css_path |-> "body > div.content > p", words |-> {"solar", "analysis"},
      blocks |-> <<Raw21e, Raw15>>],
     [css_path |-> "body > div.content > p", words |-> {"panel"},
      blocks |-> <<Raw12, Raw40>>],
     [css_path |-> "body > p", words |-> {"market"},
      blocks |-> <<Raw15, RawOne>>] >>
Nodes == {NodeSeq[i] : i \in DOMAIN NodeSeq}

\* the page that holds the elements of NodeSeq with an index in S
PageOf(S) ==
  LET idx == SelectSeq([i \in DOMAIN NodeSeq |-> i], LAMBDA i : i \in S)
  IN [k \in 1..Len(idx) |-> NodeSeq[idx[k]]]

\* the hosts of the urls of SpecSched
Hosts == 1..NumHosts

\* a page: its matched elements in document order
Pages ==
  {PageOf(S) : S \in {T \in SUBSET DOMAIN NodeSeq : Cardinality(T) <= MaxNodes}}

\* the elements of the document trees of SpecPath: tag, id attribute and
\* the words of the class attribute
Html == [tag |-> "html", id |-> "", classes |-> <<>>]
Body == [tag |-> "body", id |-> "", classes |-> <<>>]
Div == [tag |-> "div", id |-> "", classes |-> <<>>]
DivMain == [tag |-> "div", id |-> "main", classes |-> <<"content", "post">>]
Par == [tag |-> "p", id |-> "", classes |-> <<"lead">>]
Elements == {Div, DivMain, Par}

RECURSIVE class_len(_)
\* the length of ".c1.c2", nothing for no class
class_len(classes) ==
  IF classes = <<>> THEN 0 ELSE 1 + Len(Head(classes)) + class_len(Tail(classes))

\* the length of f"{tag}{id_str}{class_str}"
selector_len(e) ==
  Len(e.tag) + (IF e.id = "" THEN 0 ELSE 1 + Len(e.id)) + class_len(e.classes)

RECURSIVE joined_len(_)
\* the length of " > ".join(segs)
joined_len(segs) ==
  IF segs = <<>> THEN 0
  ELSE IF Len(segs) = 1 THEN selector_len(segs[1])
  ELSE selector_len(Head(segs)) + SEPARATOR_LEN + joined_len(Tail(segs))

\* reversed(path)
reversed(path) == [k \in 1..Len(path) |-> path[Len(path) + 1 - k]]

\* the whole selectors that s[:n] keeps of the joined string
whole_segs(segs, n) ==
  LET fits == {k \in 0..Len(segs) : joined_len(SubSeq(segs, 1, k)) <= n}
  IN SubSeq(segs, 1, CHOOSE k \in fits : \A j \in fits : j <= k)

\* get_css_path on the elem chain[1] whose parent chain is the rest of
\* chain: the loop appends the selector of current and moves to its parent
\* until there is none or the path has DEPTH_CAP selectors.  The result is
\* the selectors from the outermost one walked to the elem, cut to PATH_CAP
\* characters (cut tells that characters were dropped), "body" when empty.
get_css_path(ch) ==
  LET path == SubSeq(ch, 1, IF Len(ch) < DEPTH_CAP THEN Len(ch) ELSE DEPTH_CAP)
      segs == reversed(path)
      kept == whole_segs(segs, PATH_CAP)
  IN IF segs = <<>> THEN [segs |-> <<Body>>, cut |-> FALSE]
     ELSE [segs |-> kept, cut |-> joined_len(segs) > PATH_CAP]

\* build_cse_url(page): the start parameter of the url, the only part of it
\* that depends on page
build_cse_url(page) == page * CSE_NUM + 1

VARIABLES
  pc,              \* where the run is: start, cse_wait, cse_loop, idle, closed
  has_creds,       \* GOOGLE_CSE_ID and GOOGLE_API_KEY are both set
  kw_status,       \* keywords.status of the module's keywords
  mark_calls,      \* calls of mark_complete so far
  site_css_paths,  \* defaultdict(set)
  site_contents,   \* defaultdict(list)
  site_positions,  \* dict url -> position
  all_sites,       \* dict url -> {position, status}
  site_order,      \* the keys of all_sites in insertion order
  total_sites,
  cse_i,           \* items of the search page consumed by parse_cse_page
  cse_requested,   \* the start parameters of the search Requests yielded
  req,             \* per url: none, pending, done (callback ran), failed
  attempts,        \* per url: failed attempts of its fetch so far
  http,            \* per url: the status of the response delivered, or None
  content_data,    \* content.json
  css_data,        \* css_paths.json
  raw,             \* SpecText: the block text under test
  blocks,          \* SpecBlock: the candidate blocks under test
  selected,        \* SpecText, SpecBlock: the result of get_content_block
  chain,           \* SpecPath: the elem under test and its ancestors, elem first
  css_out,         \* SpecPath: the result of get_css_path
  sched_wait,      \* SpecSched: per host, the Requests waiting for a slot
  sched_active     \* SpecSched: per host, the fetches in flight

crawl_vars == <<pc, has_creds, kw_status, mark_calls, site_css_paths,
                site_contents, site_positions, all_sites, site_order,
                total_sites, cse_i, cse_requested, req, attempts, http,
                content_data, css_data>>
text_vars == <<raw, blocks, selected>>
path_vars == <<chain, css_out>>
sched_vars == <<sched_wait, sched_active>>
vars == <<crawl_vars, text_vars, path_vars, sched_vars>>

\* the state after __init__
InitCrawl ==
  /\ pc = "start"
  /\ has_creds \in BOOLEAN
  /\ kw_status = "pending"
  /\ mark_calls = 0
  /\ site_css_paths = [u \in URLs |-> {}]
  /\ site_contents = [u \in URLs |-> <<>>]
  /\ site_positions = [u \in {} |-> 0]
  /\ all_sites = [u \in {} |-> 0]
  /\ site_order = <<>>
  /\ total_sites = 0
  /\ cse_i = 0
  /\ cse_requested = <<>>
  /\ req = [u \in URLs |-> "none"]
  /\ attempts = [u \in URLs |-> 0]
  /\ http = [u \in URLs |-> None]
  /\ content_data = <<>>
  /\ css_data = <<>>

InitText == raw = <<>> /\ blocks = <<>> /\ selected = <<>>

\* the document of SpecPath before any element is added under its body
InitPath == chain = <<Body, Html>> /\ css_out = get_css_path(chain)

\* no Request is with the downloader
InitSched ==
  /\ sched_wait = [h \in Hosts |-> 0]
  /\ sched_active = [h \in Hosts |-> 0]

Init == InitCrawl /\ InitText /\ InitPath /\ InitSched

\* d[k] = v on a dict d
DictSet(d, k, v) == [x \in DOMAIN d \cup {k} |-> IF x = k THEN v ELSE d[x]]

\* mark_complete: the UPDATE sets the status, or it raises (no usable
\* connection) and the error is logged and swallowed
mark_complete ==
  /\ kw_status' \in {"scraped", kw_status}
  /\ mark_calls' = mark_calls + 1

\* start_requests.  Its first block (the count of scraped keywords) changes
\* nothing: on count == 4 it calls save_json_summary, which the class does
\* not define, and the bare except swallows the AttributeError.
StartRequests ==
  /\ pc = "start"
  /\ IF ~has_creds
     THEN /\ mark_complete
          /\ pc' = "idle"
          /\ UNCHANGED cse_requested
     ELSE /\ pc' = "cse_wait"
          /\ cse_requested' = Append(cse_requested, build_cse_url(0))
          /\ UNCHANGED <<kw_status, mark_calls>>
  /\ UNCHANGED <<has_creds, site_css_paths, site_contents,
                 site_positions, all_sites, site_order, total_sites, cse_i,
                 req, attempts, http, content_data, css_data, text_vars, path_vars, sched_vars>>

\* the search response arrives and parse_cse_page starts on its items
CseResponse ==
  /\ pc = "cse_wait"
  /\ pc' = "cse_loop"
  /\ cse_i' = 0
  /\ UNCHANGED <<has_creds, kw_status, mark_calls, site_css_paths,
                 site_contents, site_positions, all_sites, site_order,
                 total_sites, req, attempts, http, content_data, css_data,
                 text_vars, path_vars, sched_vars,
                 cse_requested>>

\* the search request fails for good: it has no errback, nothing runs
CseFail ==
  /\ pc = "cse_wait"
  /\ pc' = "idle"
  /\ UNCHANGED <<has_creds, kw_status, mark_calls, site_css_paths,
                 site_contents, site_positions, all_sites, site_order,
                 total_sites, cse_i, req, attempts, http, content_data,
                 css_data, text_vars, path_vars, sched_vars,
                 cse_requested>>

\* one iteration of the loop of parse_cse_page, on the item with this link;
\* the generator is suspended at its yield between two iterations.
\* A Request for a url requested before is dropped by the scheduler's
\* duplicate filter (the Request is built without dont_filter).
ParseCseItem(link) ==
  /\ pc = "cse_loop"
  /\ cse_i < MaxItems
  /\ IF total_sites >= MAX_SITES
     THEN /\ pc' = "idle"      \* break
          /\ UNCHANGED <<site_positions, all_sites, site_order, total_sites,
                         cse_i, req>>
     ELSE IF link = NoLink
     THEN /\ cse_i' = cse_i + 1
          /\ UNCHANGED <<pc, site_positions, all_sites, site_order,
                         total_sites, req>>
     ELSE LET position == total_sites + 1 IN
          /\ site_positions' = DictSet(site_positions, link, position)
          /\ all_sites' = DictSet(all_sites, link,
                                  [position |-> position, status |-> None])
          /\ site_order' = IF link \in DOMAIN all_sites THEN site_order
                           ELSE Append(site_order, link)
          /\ total_sites' = total_sites + 1
          /\ req' = IF req[link] = "none"
                    THEN [req EXCEPT ![link] = "pending"] ELSE req
          /\ cse_i' = cse_i + 1
          /\ UNCHANGED pc
  /\ UNCHANGED <<has_creds, kw_status, mark_calls, site_css_paths,
                 site_contents, attempts, http, content_data, css_data,
                 text_vars, path_vars, sched_vars,
                 cse_requested>>

\* the items are exhausted: parse_cse_page returns
ParseCseEnd ==
  /\ pc = "cse_loop"
  /\ pc' = "idle"
  /\ UNCHANGED <<has_creds, kw_status, mark_calls, site_css_paths,
                 site_contents, site_positions, all_sites, site_order,
                 total_sites, cse_i, req, attempts, http, content_data,
                 css_data, text_vars, path_vars, sched_vars,
                 cse_requested>>

\* response.xpath(xpath_query)[:20]: the nodes of the page, in document
\* order, whose text contains the word
xpath_matches(page, word) ==
  LET hits == SelectSeq(page, LAMBDA n : word \in n.words)
  IN SubSeq(hits, 1, IF Len(hits) < MATCH_CAP THEN Len(hits) ELSE MATCH_CAP)

RECURSIVE matched_elems(_, _)
\* the elems the two loops of parse_tags visit, in the order of the visits
matched_elems(page, words) ==
  IF words = <<>> THEN <<>>
  ELSE xpath_matches(page, Head(words)) \o matched_elems(page, Tail(words))

\* get_content_block on the nodes of the model, computed once
content_of == [n \in Nodes |-> get_content_block(n.blocks)]

\* extract_elem without the test for a content held already
extract_elem_no_dedup(site, elem) ==
  LET css_path == elem.css_path
      content == content_of[elem]
  IN IF content # <<>>
     THEN [contents |-> Append(site.contents, content),
           css_paths |-> site.css_paths \cup {css_path}]
     ELSE site

\* extract_elem that adds the css path of every elem with a content
extract_elem_path_always(site, elem) ==
  LET css_path == elem.css_path
      content == content_of[elem]
  IN IF content # <<>> /\ \A i \in 1..Len(site.contents) : site.contents[i] # content
     THEN [contents |-> Append(site.contents, content),
           css_paths |-> site.css_paths \cup {css_path}]
     ELSE IF content # <<>>
     THEN [contents |-> site.contents,
           css_paths |-> site.css_paths \cup {css_path}]
     ELSE site

\* the body of the inner loop of parse_tags on one elem; site is the pair
\* of site_contents[source_url] and site_css_paths[source_url]
extract_elem(site, elem) ==
  LET css_path == elem.css_path
      content == content_of[elem]
  IN IF content # <<>> /\ \A i \in 1..Len(site.contents) : site.contents[i] # content
     THEN [contents |-> Append(site.contents, content),
           css_paths |-> site.css_paths \cup {css_path}]
     ELSE site

RECURSIVE extract_all(_, _)
extract_all(site, elems) ==
  IF elems = <<>> THEN site
  ELSE extract_all(extract_elem(site, Head(elems)), Tail(elems))

\* parse_tags on the response to the Request for source_url
parse_tags(source_url, status, page) ==
  /\ all_sites' = [all_sites EXCEPT ![source_url].status = status]
  /\ IF status >= HTTP_ERROR
     THEN UNCHANGED <<site_contents, site_css_paths>>
     ELSE LET site == extract_all([contents |-> site_contents[source_url],
                                   css_paths |-> site_css_paths[source_url]],
                                  matched_elems(page, KEYWORD))
          IN /\ site_contents' = [site_contents EXCEPT ![source_url] = site.contents]
             /\ site_css_paths' = [site_css_paths EXCEPT ![source_url] = site.css_paths]

\* the fetch of url gets a response and its callback parse_tags runs
FetchResponse(url) ==
  /\ req[url] = "pending"
  /\ \E status \in Statuses :
       \E page \in (IF status >= HTTP_ERROR THEN {<<>>} ELSE Pages) :
         /\ parse_tags(url, status, page)
         /\ http' = [http EXCEPT ![url] = status]
  /\ req' = [req EXCEPT ![url] = "done"]
  /\ UNCHANGED <<pc, has_creds, kw_status, mark_calls, site_positions,
                 site_order, total_sites, cse_i, attempts, content_data,
                 css_data, text_vars, path_vars, sched_vars,
                 cse_requested>>

\* FetchFail with a last failure that stops the run
FetchFail_aborts(url) ==
  /\ req[url] = "pending"
  /\ attempts' = [attempts EXCEPT ![url] = @ + 1]
  /\ req' = IF attempts[url] >= RETRY_TIMES
            THEN [req EXCEPT ![url] = "failed"] ELSE req
  /\ pc' = IF attempts[url] >= RETRY_TIMES THEN "aborted" ELSE pc
  /\ UNCHANGED <<has_creds, kw_status, mark_calls, site_css_paths,
                 site_contents, site_positions, all_sites, site_order,
                 total_sites, cse_i, http, content_data, css_data, text_vars, path_vars, sched_vars,
                 cse_requested>>

\* FetchFail with one retry more than RETRY_TIMES
FetchFail_one_more(url) ==
  /\ req[url] = "pending"
  /\ attempts' = [attempts EXCEPT ![url] = @ + 1]
  /\ req' = IF attempts[url] >= RETRY_TIMES + 1
            THEN [req EXCEPT ![url] = "failed"] ELSE req
  /\ UNCHANGED <<pc, has_creds, kw_status, mark_calls, site_css_paths,
                 site_contents, site_positions, all_sites, site_order,
                 total_sites, cse_i, http, content_data, css_data, text_vars,
                 path_vars, sched_vars, cse_requested>>

\* an attempt to fetch url times out or fails on the network: it is retried
\* RETRY_TIMES times, then given up; the Request has no errback, so nothing
\* of the spider runs
FetchFail(url) ==
  /\ req[url] = "pending"
  /\ attempts' = [attempts EXCEPT ![url] = @ + 1]
  /\ req' = IF attempts[url] >= RETRY_TIMES
            THEN [req EXCEPT ![url] = "failed"] ELSE req
  /\ UNCHANGED <<pc, has_creds, kw_status, mark_calls, site_css_paths,
                 site_contents, site_positions, all_sites, site_order,
                 total_sites, cse_i, http, content_data, css_data, text_vars, path_vars, sched_vars,
                 cse_requested>>

\* the orders in which a set can be iterated
Listings(S) ==
  {l \in [1..Cardinality(S) -> S] : \A i, j \in 1..Cardinality(S) : l[i] = l[j] => i = j}

\* content[:2000], on whole tokens
RECURSIVE take_chars(_, _)
take_chars(text, n) ==
  IF text = <<>> \/ TokLen(Head(text)) > n THEN <<>>
  ELSE <<Head(text)>> \o take_chars(Tail(text), n - TokLen(Head(text)))

\* the records save_content_json appends for one url; css_paths_list is
\* list(self.site_css_paths[url])
content_rows(url, css_paths_list) ==
  [k \in 1..Len(site_contents[url]) |->
     LET i == k
         last == Len(css_paths_list)
         css_path == IF css_paths_list # <<>>
                     THEN css_paths_list[IF i - 1 < last - 1 THEN i ELSE last]
                     ELSE "body"
         content == site_contents[url][k]
     IN [url |-> url,
         position |-> all_sites[url].position,
         content_id |-> i,
         css_path |-> css_path,
         content |-> take_chars(content, CONTENT_CAP),
         content_length |-> TextLen(content),
         keywords |-> KEYWORD]]

\* the records save_css_paths_json appends for one url
css_rows(url, css_paths_list) ==
  [k \in 1..Len(css_paths_list) |->
     [url |-> url,
      position |-> all_sites[url].position,
      css_path |-> css_paths_list[k],
      status_code |-> all_sites[url].status]]

RECURSIVE save_content_json(_, _)
\* for url, data in self.all_sites.items(): ...
save_content_json(urls, listing) ==
  IF urls = <<>> THEN <<>>
  ELSE content_rows(Head(urls), listing[Head(urls)])
       \o save_content_json(Tail(urls), listing)

RECURSIVE save_css_paths_json(_, _)
save_css_paths_json(urls, listing) ==
  IF urls = <<>> THEN <<>>
  ELSE css_rows(Head(urls), listing[Head(urls)])
       \o save_css_paths_json(Tail(urls), listing)

\* closed: the engine calls it once no request is left.  The iteration
\* order of each set of css paths is the interpreter's choice; both saves
\* iterate the same unchanged sets.
Closed ==
  /\ pc = "idle"
  /\ \A u \in URLs : req[u] # "pending"
  /\ mark_complete
  /\ \E listing \in [URLs -> UNION {Listings(P) : P \in SUBSET CssPaths}] :
       /\ \A u \in URLs : listing[u] \in Listings(site_css_paths[u])
       /\ content_data' = save_content_json(site_order, listing)
       /\ css_data' = save_css_paths_json(site_order, listing)
  /\ pc' = "closed"
  /\ UNCHANGED <<has_creds, site_css_paths, site_contents,
                 site_positions, all_sites, site_order, total_sites, cse_i,
                 req, attempts, http, text_vars, path_vars, sched_vars,
                 cse_requested>>

Next ==
  \/ StartRequests
  \/ CseResponse
  \/ CseFail
  \/ \E link \in Links : ParseCseItem(link)
  \/ ParseCseEnd
  \/ \E url \in URLs : FetchResponse(url)
  \/ \E url \in URLs : FetchFail(url)
  \/ Closed

Spec == Init /\ [][Next]_vars

\* the engine keeps running callbacks and closes the spider when idle
FairSpec == Spec /\ WF_vars(Next)

(***************************************************************************)
(* The pure functions on bounded inputs.                                   *)
(***************************************************************************)
\* the crawl does not move in these specifications
InitPure == Init /\ has_creds

\* get_content_block on an elem whose only block is the text raw
ExtendText(t) ==
  /\ Len(raw) < MaxTokens
  /\ raw' = Append(raw, t)
  /\ selected' = get_content_block(<<raw'>>)
  /\ UNCHANGED <<blocks, crawl_vars, path_vars, sched_vars>>

NextText == \E t \in Tokens : ExtendText(t)

SpecText == InitPure /\ [][NextText]_vars

\* get_content_block on an elem with the blocks found so far and b
AddBlock(b) ==
  /\ Len(blocks) < MaxBlocks
  /\ blocks' = Append(blocks, b)
  /\ selected' = get_content_block(blocks')
  /\ UNCHANGED <<raw, crawl_vars, path_vars, sched_vars>>

NextBlock == \E b \in SampleRaws : AddBlock(b)

SpecBlock == InitPure /\ [][NextBlock]_vars

(***************************************************************************)
(* The downloader's slots under CONCURRENT_REQUESTS and                    *)
(* CONCURRENT_REQUESTS_PER_DOMAIN.  The urls only count by their host.     *)
(***************************************************************************)
RECURSIVE sum_upto(_, _)
\* f[1] + ... + f[n]
sum_upto(f, n) == IF n = 0 THEN 0 ELSE f[n] + sum_upto(f, n - 1)

\* the fetches in flight on all hosts
in_flight == sum_upto(sched_active, NumHosts)

\* the Requests waiting for a slot on all hosts
waiting == sum_upto(sched_wait, NumHosts)

\* parse_cse_page yields the Request for a hit on host h; the hits of a run
\* are MAX_SITES at most
Enqueue(h) ==
  /\ waiting + in_flight < MAX_SITES
  /\ sched_wait' = [sched_wait EXCEPT ![h] = @ + 1]
  /\ UNCHANGED <<sched_active, crawl_vars, text_vars, path_vars>>

\* Dispatch that looks at the global limit only
Dispatch_global_only(h) ==
  /\ sched_wait[h] > 0
  /\ in_flight < CONCURRENT_REQUESTS
  /\ sched_wait' = [sched_wait EXCEPT ![h] = @ - 1]
  /\ sched_active' = [sched_active EXCEPT ![h] = @ + 1]
  /\ UNCHANGED <<crawl_vars, text_vars, path_vars>>

\* a waiting Request for host h starts its fetch: a global slot and a slot
\* of its host are free
Dispatch(h) ==
  /\ sched_wait[h] > 0
  /\ in_flight < CONCURRENT_REQUESTS
  /\ sched_active[h] < CONCURRENT_REQUESTS_PER_DOMAIN
  /\ sched_wait' = [sched_wait EXCEPT ![h] = @ - 1]
  /\ sched_active' = [sched_active EXCEPT ![h] = @ + 1]
  /\ UNCHANGED <<crawl_vars, text_vars, path_vars>>

\* a fetch on host h ends, with a response or a failure
Settle(h) ==
  /\ sched_active[h] > 0
  /\ sched_active' = [sched_active EXCEPT ![h] = @ - 1]
  /\ UNCHANGED <<sched_wait, crawl_vars, text_vars, path_vars>>

NextSched ==
  \/ \E h \in Hosts : Enqueue(h)
  \/ \E h \in Hosts : Dispatch(h)
  \/ \E h \in Hosts : Settle(h)

SpecSched == InitPure /\ [][NextSched]_vars

(***************************************************************************)
(* get_css_path on the elems of bounded documents.                         *)
(***************************************************************************)
\* the elem under test becomes a new child e of the elem before
AddChild(e) ==
  /\ Len(chain) < MaxDepth
  /\ chain' = <<e>> \o chain
  /\ css_out' = get_css_path(chain')
  /\ UNCHANGED <<crawl_vars, text_vars, sched_vars>>

NextPath == \E e \in Elements : AddChild(e)

SpecPath == InitPure /\ [][NextPath]_vars

(***************************************************************************)
(* Claims.                                                                 *)
(***************************************************************************)
\* the quality conditions as the specification words them
Qualifies(c) ==
  /\ TextLen(c) >= 15
  /\ word_count(c) >= 2
  /\ ~matches_bad_pattern(c)

\* C1: when parse_tags processes a matched node whose selected content is
\* already in the site's content list, the list is unchanged and the node's
\* css path is still added to the site's path set: after a page is
\* processed, the path of every node that selected content is in the set.
C1_DedupKeepsPath ==
  [][\A url \in URLs, page \in Pages :
       ( /\ req[url] = "pending"
         /\ req'[url] = "done"
         /\ parse_tags(url, 200, page) )
       => \A k \in 1..Len(page) :
            content_of[page[k]] # <<>>
            => page[k].css_path \in site_css_paths'[url]]_vars

\* C2: the rank of every url equals its 1-based first-seen order among the
\* distinct urls, and a url seen again counts for nothing.
C2_RankIsFirstSeenOrder ==
  /\ total_sites = Len(site_order)
  /\ \A k \in 1..Len(site_order) :
       /\ all_sites[site_order[k]].position = k
       /\ site_positions[site_order[k]] = k

\* C3: at the end of the run the one record of every scheduled url holds
\* the status of the response that arrived for it, or None when its fetch
\* failed on every attempt.
C3_VisitRecordFinalized ==
  pc = "closed" =>
    \A u \in URLs :
      /\ req[u] # "none" => u \in DOMAIN all_sites
      /\ req[u] = "done" => all_sites[u].status = http[u]
      /\ req[u] = "failed" => all_sites[u].status = None

\* C4: whatever the fetches do, and also with no hits or no credentials,
\* the run reaches closed: mark_complete called, both outputs written, and
\* both empty when there was no hit.
C4_RunFinalizes ==
  <>( /\ pc = "closed"
      /\ mark_calls >= 1
      /\ \A u \in URLs : req[u] # "pending"
      /\ site_order = <<>> => (content_data = <<>> /\ css_data = <<>>) )

C4_Witness ==
  /\ pc = "closed"
  /\ \E u, v \in URLs :
       /\ req[u] = "failed"
       /\ req[v] = "done" /\ http[v] >= HTTP_ERROR

\* C5: a url whose fetch returned a status >= 400 has that status recorded,
\* a url whose fetch failed on all attempts has None, and both have an
\* empty content list and an empty path set.
C5_FailedFetchNoExtraction ==
  \A u \in URLs :
    /\ (req[u] = "done" /\ http[u] >= HTTP_ERROR) =>
         /\ all_sites[u].status = http[u]
         /\ site_contents[u] = <<>>
         /\ site_css_paths[u] = {}
    /\ req[u] = "failed" =>
         /\ all_sites[u].status = None
         /\ site_contents[u] = <<>>
         /\ site_css_paths[u] = {}

\* C6: in both outputs every record of a url of lower rank comes before
\* every record of a url of higher rank.
C6_ReportsInRankOrder ==
  pc = "closed" =>
    /\ \A i, j \in 1..Len(content_data) :
         content_data[i].position < content_data[j].position => i < j
    /\ \A i, j \in 1..Len(css_data) :
         css_data[i].position < css_data[j].position => i < j

\* C7: the site-level output holds exactly one record for every scheduled
\* url, also for a url whose fetch failed or whose page gave no content.
C7_OneReportPerUrl ==
  pc = "closed" =>
    \A u \in DOMAIN all_sites :
      Cardinality({k \in 1..Len(css_data) : css_data[k].url = u}) = 1

\* C8: the only candidate block of a node, when its cleaned text has 15
\* characters or more, two or more words of 3+ letters and no boilerplate
\* signature, is the content of the node.
C8_QualifyingBlockAccepted ==
  Qualifies(clean_text(raw)) => selected = clean_text(raw)

\* C9: every text in a content list has length >= 15, at least 2 words of
\* 3+ letters and no boilerplate signature.
C9_StoredContentIsGood ==
  \A u \in URLs : \A i \in 1..Len(site_contents[u]) :
    Qualifies(site_contents[u][i])

C9_Witness ==
  \E u \in URLs : req[u] = "done" /\ Len(site_contents[u]) = 2

\* the first longest of a non-empty sequence of texts
FirstLongest(cands) ==
  cands[CHOOSE i \in 1..Len(cands) :
          /\ \A j \in 1..Len(cands) : TextLen(cands[j]) <= TextLen(cands[i])
          /\ \A j \in 1..(i - 1) : TextLen(cands[j]) < TextLen(cands[i])]

\* C10: the content of a node is the longest of its candidates that pass
\* the quality filter, the earliest of them on a tie, and none when no
\* candidate passes.
C10_LongestPassingSelected ==
  LET passing == SelectSeq(cleaned_blocks(blocks), is_good_content)
  IN selected = IF passing = <<>> THEN <<>> ELSE FirstLongest(passing)

\* C11: the search is asked for page after page, each start parameter one
\* page further, until MAX_SITES hits are held or a page comes back empty:
\* a run whose first page had items and left fewer than MAX_SITES hits has
\* asked for a following page.
C11_SearchPaginates ==
  (pc = "closed" /\ cse_i > 0 /\ total_sites < MAX_SITES) =>
    /\ Len(cse_requested) >= 2
    /\ \A k \in 1..Len(cse_requested) : cse_requested[k] = build_cse_url(k - 1)

\* C12: mark_complete is called exactly once in a run, at its end, with
\* credentials and without.
C12_MarkCompleteOnce ==
  pc = "closed" => mark_calls = 1

\* C13: never more than CONCURRENT_REQUESTS fetches in flight, never more
\* than CONCURRENT_REQUESTS_PER_DOMAIN on one host, and a Request that waits
\* for a slot of its host holds no global slot: while fewer than
\* CONCURRENT_REQUESTS fetches are in flight, a waiting Request of a host
\* with a free slot can start.
C13_ConcurrencyLimits ==
  /\ in_flight <= CONCURRENT_REQUESTS
  /\ \A h \in Hosts : sched_active[h] <= CONCURRENT_REQUESTS_PER_DOMAIN
  /\ \A h \in Hosts :
       ( /\ sched_wait[h] > 0
         /\ sched_active[h] < CONCURRENT_REQUESTS_PER_DOMAIN
         /\ in_flight < CONCURRENT_REQUESTS )
       => ENABLED Dispatch(h)

\* both limits are reached while Requests wait on a full host and on a
\* host with a free slot
C13_Witness ==
  /\ in_flight = CONCURRENT_REQUESTS
  /\ \E h, g \in Hosts :
       /\ sched_active[h] = CONCURRENT_REQUESTS_PER_DOMAIN /\ sched_wait[h] > 0
       /\ sched_active[g] = 0 /\ sched_wait[g] > 0

\* the attempts to fetch u so far: the failed ones and the answered one
fetch_attempts(u) == attempts[u] + (IF req[u] = "done" THEN 1 ELSE 0)

C15_StatusWriterExclusive ==
  [][\A u \in DOMAIN all_sites :
       all_sites'[u].status # all_sites[u].status =>
         /\ all_sites[u].status = None
         /\ req[u] = "pending"
         /\ req'[u] = "done"]_vars

\* C16: at most MAX_SITES distinct urls are scheduled, the ranks held are
\* distinct values of 1..total_sites, a url keeps the rank it was given and
\* a new url gets a rank no url held before.
C16_RanksDistinctAndFixed ==
  /\ [](/\ Cardinality(DOMAIN all_sites) <= MAX_SITES
        /\ \A u \in DOMAIN all_sites : all_sites[u].position \in 1..total_sites
        /\ \A u, v \in DOMAIN all_sites :
             all_sites[u].position = all_sites[v].position => u = v)
  /\ [][/\ \A u \in DOMAIN all_sites :
             all_sites'[u].position = all_sites[u].position
        /\ \A v \in DOMAIN all_sites' \ DOMAIN all_sites :
             \A u \in DOMAIN all_sites :
               all_sites'[v].position # all_sites[u].position]_vars

\* C17: no content list holds the same text twice.
C17_ContentsDistinct ==
  \A u \in URLs : \A i, j \in 1..Len(site_contents[u]) :
    site_contents[u][i] = site_contents[u][j] => i = j

\* a page whose first elem with a content matches two words of the keyword,
\* so that the loops offered its content twice
C17_Witness ==
  \E u \in URLs :
    /\ req[u] = "done"
    /\ site_contents[u] = <<content_of[NodeSeq[2]]>>
    /\ site_css_paths[u] = {NodeSeq[2].css_path}

\* C19: every rendered path begins with a root segment: the selector of the
\* outermost element, or a root segment put in front when the walk stopped
\* at DEPTH_CAP selectors before it got there.
C19_PathStartsAtRoot ==
  css_out.segs # <<>> /\ Head(css_out.segs) \in {Html, Body}

\* C20: the path set of a url is no larger than its content list and is
\* empty exactly when the list is empty, so every record of content.json
\* takes its css path from the set and none takes the fallback "body".
C20_PathsWithinContents ==
  /\ \A u \in URLs :
       /\ Cardinality(site_css_paths[u]) <= Len(site_contents[u])
       /\ site_css_paths[u] = {} <=> site_contents[u] = <<>>
  /\ pc = "closed" =>
       \A k \in 1..Len(content_data) :
         /\ content_data[k].css_path # "body"
         /\ content_data[k].css_path \in site_css_paths[content_data[k].url]

\* a finished run with a url of two contents under one path, where the
\* index is cut to the last path
C20_Witness ==
  /\ pc = "closed"
  /\ \E u \in URLs :
       /\ Len(site_contents[u]) = 2
       /\ Cardinality(site_css_paths[u]) = 1
       /\ \E k \in 1..Len(content_data) :
            content_data[k].url = u /\ content_data[k].content_id = 2

====
